---- MODULE Spec2Model ----
(***************************************************************************)
(* Model of apps/backend/scripts/populate_dummy_data.py: a sequential      *)
(* seeding script.  get_baby_id() resolves the subject with one GET,       *)
(* populate() walks the days 2026-02-02..2026-02-16 and calls              *)
(* create_event() for three naps, one night sleep, five feedings and six   *)
(* to eight diaper events per day.  The remote service and the random      *)
(* module are the environment: every response and every draw is chosen     *)
(* nondeterministically.                                                   *)
(***************************************************************************)
EXTENDS Integers, Sequences, FiniteSets, TLC

VARIABLES
    pc,            \* position of the script
    ret,           \* where populate resumes when create_event returns
    profile,       \* the response of the profile GET
    baby_id,       \* populate's local baby_id
    profileCalls,  \* number of profile GETs issued
    current_date,  \* the day cursor
    idx,           \* index of the running for loop
    nDiapers,      \* the drawn length of the diaper loop
    draw,          \* the nap's random draws
    lastPosts,     \* the POSTs issued by the create_event call in progress
    anyPost,       \* some POST was issued
    anyFailed,     \* some POST was answered with a status other than 200
    sleepCount, feedCount, diaperCount,  \* POSTs issued for the current day
    daysDone,      \* completed iterations of the while loop
    daysFull       \* completed iterations with 4 SLEEP, 5 FORMULA, 6..8 diaper POSTs

vars == <<pc, ret, profile, baby_id, profileCalls, current_date, idx, nDiapers,
          draw, lastPosts, anyPost, anyFailed,
          sleepCount, feedCount, diaperCount, daysDone, daysFull>>

(***************************************************************************)
(* Bounds of the environment.                                              *)
(***************************************************************************)
\* number of distinct non-empty identifiers the profile call may return
MaxIds == 2
\* draws whose value no branch depends on are taken from the low end of
\* their range (Samples values) and its upper end
Samples == 1

Sampled(lo, hi) == {x \in lo..hi : x < lo + Samples \/ x = hi}

(***************************************************************************)
(* Python values: None and strings (the empty string, or the n-th          *)
(* non-empty identifier).                                                  *)
(***************************************************************************)
None == [kind |-> "None", n |-> 0]
\* a JSON body without an "id" member, and one whose "id" is null
Absent == [kind |-> "absent", n |-> 0]
Null == [kind |-> "null", n |-> 0]
Str(n) == [kind |-> "str", n |-> n]

\* truthiness of None / str, as tested by `not baby_id`
Truthy(v) == v.kind = "str" /\ v.n > 0

(***************************************************************************)
(* datetime: year 2026 is not a leap year.                                 *)
(***************************************************************************)
Year == 2026
DaysInMonth == <<31, 28, 31, 30, 31, 30, 31, 31, 30, 31, 30, 31>>

RECURSIVE DaysBeforeMonth(_)
DaysBeforeMonth(m) == IF m = 1 THEN 0 ELSE DaysBeforeMonth(m - 1) + DaysInMonth[m - 1]

DateTime(y, mo, d) == [year |-> y, month |-> mo, day |-> d, hour |-> 0, minute |-> 0]

\* minutes since 2026-01-01T00:00
ToMinutes(dt) == ((DaysBeforeMonth(dt.month) + dt.day - 1) * 24 + dt.hour) * 60 + dt.minute

FromMinutes(t) ==
    LET doy == (t \div 1440) + 1
        mo  == CHOOSE m \in 1..12 :
                 DaysBeforeMonth(m) < doy /\ doy <= DaysBeforeMonth(m) + DaysInMonth[m]
        rem == t % 1440
    IN  [year |-> Year, month |-> mo, day |-> doy - DaysBeforeMonth(mo),
         hour |-> rem \div 60, minute |-> rem % 60]

\* dt + timedelta(minutes=k), dt + timedelta(days=d)
AddMinutes(dt, k) == FromMinutes(ToMinutes(dt) + k)
AddDays(dt, d) == FromMinutes(ToMinutes(dt) + d * 1440)

\* datetime.replace(hour=h, minute=m) raises ValueError outside these ranges
ReplaceOk(h, m) == h \in 0..23 /\ m \in 0..59
Replace(dt, h, m) == [dt EXCEPT !.hour = h, !.minute = m]

\* dt.isoformat() + "Z": "YYYY-MM-DDTHH:MM:SS" with seconds 0, then the suffix
IsoFormatZ(dt) == [iso |-> <<dt.year, dt.month, dt.day, dt.hour, dt.minute, 0>>, suffix |-> "Z"]

(***************************************************************************)
(* Configuration of the run.                                               *)
(***************************************************************************)
start_date == DateTime(Year, 2, 2)
end_date == DateTime(Year, 2, 16)
Unset == DateTime(0, 0, 0)

\* (hour, minute, duration) of the three naps; hours of the five feedings
nap_times == << <<10, 0, 90>>, <<14, 30, 60>>, <<17, 0, 40>> >>
feed_times == <<7, 11, 15, 19, 23>>

(***************************************************************************)
(* The environment's answers and the random draws.                         *)
(***************************************************************************)
ProfileStatuses == {200, 401, 500}
PostStatuses == {200, 500}
\* the "id" member of the profile body: absent, JSON null, "", or an identifier
BodyIds == {Absent, Null} \cup {Str(n) : n \in 0..MaxIds}
ProfileResponses == [status : ProfileStatuses, id : BodyIds]
NoResponse == [status |-> 0, id |-> Absent]

NapOffsets == -15..15
NapJitters == -10..20
NightMinutes == 0..30
FeedMinutes == Sampled(0, 45)
FeedMl == Sampled(120, 200)
DiaperCounts == 6..8
DiaperHours == Sampled(0, 23)
DiaperMinutes == Sampled(0, 59)
\* random.random() in hundredths
RandomUnit == {0, 29, 30, 99}
IsPoo(r) == r < 30

NoDraw == [anchor |-> 0, off |-> 0, jit |-> 0]

(***************************************************************************)
(* get_baby_id: resp.json().get("id") on 200, None otherwise.              *)
(***************************************************************************)
JsonGetId(resp) == IF resp.id \in {Absent, Null} THEN None ELSE resp.id

get_baby_id_IgnoreStatus(resp) == JsonGetId(resp)
get_baby_id(resp) == IF resp.status = 200 THEN JsonGetId(resp) ELSE None

\* `if not baby_id`
IsNone(v) == v = None
NotBabyId(v) == ~Truthy(v)

(***************************************************************************)
(* create_event: the payload of the single POST it issues.  Optional       *)
(* arguments are <<>> (None) or <<x>>.                                     *)
(***************************************************************************)
Payload(b, event_type, start_time, value) ==
    [baby_id |-> b, type |-> event_type, start_time |-> IsoFormatZ(start_time),
     value |-> IF value = <<>> THEN <<>> ELSE value[1]]

WithEnd(p, end_time) ==
    [k \in DOMAIN p \cup {"end_time"} |->
        IF k = "end_time" THEN IsoFormatZ(end_time[1]) ELSE p[k]]

create_event_FixedId(b, event_type, start_time, end_time, value) ==
    IF end_time # <<>>
    THEN << WithEnd(Payload(Str(1), event_type, start_time, value), end_time) >>
    ELSE << Payload(Str(1), event_type, start_time, value) >>
create_event_NoEnd(b, event_type, start_time, end_time, value) ==
    << Payload(b, event_type, start_time, value) >>
create_event(b, event_type, start_time, end_time, value) ==
    IF end_time # <<>>
    THEN << WithEnd(Payload(b, event_type, start_time, value), end_time) >>
    ELSE << Payload(b, event_type, start_time, value) >>

\* end of the night sleep: 07:mm on the day after current_date
NightEnd_SameDay(d, m) == Replace(d, 7, m)
NightEnd(d, m) == Replace(AddDays(d, 1), 7, m)

CountType(posts, types) == Cardinality({i \in DOMAIN posts : posts[i].type \in types})

\* populate calls create_event, which builds the payload and sends the POST
\* (lines 23-32); populate resumes at (rpc, ridx) when it returns
Call(posts, rpc, ridx) ==
    /\ lastPosts' = posts
    /\ anyPost' = (anyPost \/ posts # <<>>)
    /\ sleepCount' = sleepCount + CountType(posts, {"SLEEP"})
    /\ feedCount' = feedCount + CountType(posts, {"FORMULA"})
    /\ diaperCount' = diaperCount + CountType(posts, {"POO", "PEE"})
    /\ pc' = "create_event"
    /\ ret' = [pc |-> rpc, idx |-> ridx]
    /\ UNCHANGED <<idx, anyFailed>>

\* an uncaught ValueError of datetime.replace ends the script
Crash ==
    /\ pc' = "ValueError"
    /\ UNCHANGED <<ret, idx, lastPosts, anyPost, anyFailed, sleepCount, feedCount,
                   diaperCount>>

Terminated == pc \in {"returned", "ValueError"}

Init ==
    /\ pc = "get_baby_id"
    /\ ret = [pc |-> "none", idx |-> 0]
    /\ profile = NoResponse
    /\ baby_id = None
    /\ profileCalls = 0
    /\ current_date = Unset
    /\ idx = 0
    /\ nDiapers = 0
    /\ draw = NoDraw
    /\ lastPosts = <<>>
    /\ anyPost = FALSE
    /\ anyFailed = FALSE
    /\ sleepCount = 0
    /\ feedCount = 0
    /\ diaperCount = 0
    /\ daysDone = 0
    /\ daysFull = 0

\* populate line 39: baby_id = get_baby_id()
GetBabyId ==
    /\ pc = "get_baby_id"
    /\ \E resp \in ProfileResponses :
         /\ profile' = resp
         /\ baby_id' = get_baby_id(resp)
    /\ profileCalls' = profileCalls + 1
    /\ pc' = "check_id"
    /\ UNCHANGED <<ret, current_date, idx, nDiapers, draw, lastPosts, anyPost,
                   anyFailed, sleepCount, feedCount, diaperCount, daysDone, daysFull>>

\* populate lines 40-46
CheckBabyId ==
    /\ pc = "check_id"
    /\ IF NotBabyId(baby_id)
       THEN pc' = "returned" /\ UNCHANGED current_date
       ELSE pc' = "while" /\ current_date' = start_date
    /\ UNCHANGED <<ret, profile, baby_id, profileCalls, idx, nDiapers, draw, lastPosts,
                   anyPost, anyFailed, sleepCount, feedCount, diaperCount,
                   daysDone, daysFull>>

\* populate line 47: while current_date <= end_date
WhileTest_Reresolve ==
    /\ pc = "while"
    /\ IF ToMinutes(current_date) <= ToMinutes(end_date)
       THEN pc' = "nap" /\ idx' = 1
       ELSE pc' = "returned" /\ idx' = 0
    /\ profileCalls' = profileCalls + 1
    /\ sleepCount' = 0 /\ feedCount' = 0 /\ diaperCount' = 0 /\ nDiapers' = 0
    /\ UNCHANGED <<ret, profile, baby_id, current_date, draw, lastPosts,
                   anyPost, anyFailed, daysDone, daysFull>>
WhileTest ==
    /\ pc = "while"
    /\ IF ToMinutes(current_date) <= ToMinutes(end_date)
       THEN pc' = "nap" /\ idx' = 1
       ELSE pc' = "returned" /\ idx' = 0
    /\ sleepCount' = 0 /\ feedCount' = 0 /\ diaperCount' = 0 /\ nDiapers' = 0
    /\ UNCHANGED <<ret, profile, baby_id, profileCalls, current_date, draw, lastPosts,
                   anyPost, anyFailed, daysDone, daysFull>>

\* populate lines 57-63: one iteration of the nap loop, up to the POST
Nap ==
    /\ pc = "nap"
    /\ \E off \in NapOffsets, jit \in NapJitters :
         LET h == nap_times[idx][1]
             actual_m == nap_times[idx][2] + off
             dur == nap_times[idx][3]
         IN  IF ReplaceOk(h, actual_m)
             THEN LET s_time == Replace(current_date, h, actual_m)
                      e_time == AddMinutes(s_time, dur + jit)
                  IN  /\ IF idx < Len(nap_times)
                         THEN Call(create_event(baby_id, "SLEEP", s_time, <<e_time>>,
                                                <<[sleep_type |-> "nap"]>>), "nap", idx + 1)
                         ELSE Call(create_event(baby_id, "SLEEP", s_time, <<e_time>>,
                                                <<[sleep_type |-> "nap"]>>), "night", 0)
                      /\ draw' = [anchor |-> idx, off |-> off, jit |-> jit]
             ELSE /\ Crash
                  /\ draw' = [anchor |-> idx, off |-> off, jit |-> 0]
    /\ UNCHANGED <<profile, baby_id, profileCalls, current_date, nDiapers,
                   daysDone, daysFull>>

\* populate lines 67-69, up to the POST
Night ==
    /\ pc = "night"
    /\ \E m1 \in NightMinutes, m2 \in NightMinutes :
         IF ReplaceOk(20, m1) /\ ReplaceOk(7, m2)
         THEN Call(create_event(baby_id, "SLEEP", Replace(current_date, 20, m1),
                                <<NightEnd(current_date, m2)>>,
                                <<[sleep_type |-> "night"]>>), "formula", 1)
         ELSE Crash
    /\ UNCHANGED <<profile, baby_id, profileCalls, current_date, nDiapers, draw,
                   daysDone, daysFull>>

\* populate lines 74-77: one iteration of the feeding loop, up to the POST
Formula ==
    /\ pc = "formula"
    /\ \E m \in FeedMinutes, ml \in FeedMl :
         IF ReplaceOk(feed_times[idx], m)
         THEN IF idx < Len(feed_times)
              THEN Call(create_event(baby_id, "FORMULA",
                                     Replace(current_date, feed_times[idx], m),
                                     <<>>, <<[ml |-> ml]>>), "formula", idx + 1)
              ELSE Call(create_event(baby_id, "FORMULA",
                                     Replace(current_date, feed_times[idx], m),
                                     <<>>, <<[ml |-> ml]>>), "diaper_range", 0)
         ELSE Crash
    /\ UNCHANGED <<profile, baby_id, profileCalls, current_date, nDiapers, draw,
                   daysDone, daysFull>>

\* populate line 80: range(random.randint(6, 8))
DiaperRange ==
    /\ pc = "diaper_range"
    /\ \E n \in DiaperCounts : nDiapers' = n
    /\ idx' = 0
    /\ pc' = "diaper"
    /\ UNCHANGED <<ret, profile, baby_id, profileCalls, current_date, draw, lastPosts,
                   anyPost, anyFailed, sleepCount, feedCount, diaperCount,
                   daysDone, daysFull>>

\* populate lines 80-88: one iteration of the diaper loop, up to the POST
Diaper ==
    /\ pc = "diaper"
    /\ IF idx < nDiapers
       THEN \E h \in DiaperHours, m \in DiaperMinutes, r \in RandomUnit :
              IF ReplaceOk(h, m)
              THEN Call(create_event(baby_id, IF IsPoo(r) THEN "POO" ELSE "PEE",
                                     Replace(current_date, h, m),
                                     <<>>, <<[count |-> 1]>>), "diaper", idx + 1)
              ELSE Crash
       ELSE /\ pc' = "advance"
            /\ UNCHANGED <<ret, idx, lastPosts, anyPost, anyFailed, sleepCount,
                           feedCount, diaperCount>>
    /\ UNCHANGED <<profile, baby_id, profileCalls, current_date, nDiapers, draw,
                   daysDone, daysFull>>

\* create_event lines 32-36: the response arrives, its status is printed, and
\* create_event returns whatever the status
PostResponse ==
    /\ pc = "create_event"
    /\ \E status \in PostStatuses : anyFailed' = (anyFailed \/ status # 200)
    /\ pc' = ret.pc
    /\ idx' = ret.idx
    /\ ret' = [pc |-> "none", idx |-> 0]
    /\ lastPosts' = <<>>
    /\ draw' = NoDraw
    /\ UNCHANGED <<profile, baby_id, profileCalls, current_date, nDiapers, anyPost,
                   sleepCount, feedCount, diaperCount, daysDone, daysFull>>

\* populate line 90: current_date += timedelta(days=1)
AdvanceDay ==
    /\ pc = "advance"
    /\ current_date' = AddDays(current_date, 1)
    /\ daysDone' = daysDone + 1
    /\ daysFull' = IF sleepCount = 4 /\ feedCount = 5 /\ diaperCount \in 6..8
                   THEN daysFull + 1 ELSE daysFull
    /\ pc' = "while"
    /\ UNCHANGED <<ret, profile, baby_id, profileCalls, idx, nDiapers, draw, lastPosts,
                   anyPost, anyFailed, sleepCount, feedCount, diaperCount>>

Next ==
    \/ GetBabyId
    \/ CheckBabyId
    \/ WhileTest
    \/ Nap
    \/ Night
    \/ Formula
    \/ DiaperRange
    \/ Diaper
    \/ PostResponse
    \/ AdvanceDay

Spec == Init /\ [][Next]_vars

(***************************************************************************)
(* Reading a request back: the timestamp of a payload as a calendar day    *)
(* number and as minutes, and the requests of one kind.                    *)
(***************************************************************************)
IsoDay(ts) == DaysBeforeMonth(ts.iso[2]) + ts.iso[3]
IsoMinutes(ts) == (IsoDay(ts) - 1) * 1440 + ts.iso[4] * 60 + ts.iso[5]

Posts == {lastPosts[i] : i \in DOMAIN lastPosts}
SleepPosts(kind) == {p \in Posts : p.type = "SLEEP" /\ p.value.sleep_type = kind}

\* number of days of the inclusive range start_date..end_date
RangeDays == (ToMinutes(end_date) - ToMinutes(start_date)) \div 1440 + 1

\* the profile call answered 200 with a usable id
Resolved == profile.status = 200 /\ Truthy(JsonGetId(profile))

\* C1: once the profile call succeeded with an id, every day of the range
\* 2026-02-02..2026-02-16 gets exactly 4 SLEEP, 5 FORMULA and 6 to 8 diaper
\* POSTs, whatever the draws and responses: a run that has ended has issued
\* these counts for each of the days of the range.
C1_CountsForEveryDay ==
    (Terminated /\ Resolved) => daysFull = RangeDays

\* C2: after a profile response with a status other than 200, get_baby_id
\* returned None and no event-creation POST is ever issued.
C2_Non200NoPost ==
    (profileCalls > 0 /\ profile.status # 200) =>
        /\ baby_id = None
        /\ ~anyPost
        /\ lastPosts = <<>>
        /\ pc \in {"check_id", "returned"}

\* a run that ended after an error response whose body carried an id
C2_Witness ==
    pc = "returned" /\ profile.status = 500 /\ profile.id = Str(1)

\* C3: a POST answered with a non-200 status is not fatal: a run in which
\* some POST failed still submits every remaining scheduled event, so it ends
\* by returning with the full schedule of every day submitted.
C3_FailedPostStillCompletes ==
    (Terminated /\ anyFailed) => (pc = "returned" /\ daysFull = RangeDays)

\* C4: exactly one profile GET is issued in a run; it is issued and answered
\* before the first event-creation POST and never again.
C4_OneProfileCallFirst ==
    /\ profileCalls <= 1
    /\ pc # "get_baby_id" => (profileCalls = 1 /\ profile # NoResponse)
    /\ (anyPost \/ lastPosts # <<>>) => (profileCalls = 1 /\ profile.status = 200)

\* the whole range was processed, with failed POSTs on the way
C4_Witness ==
    pc = "returned" /\ daysDone = RangeDays /\ anyFailed /\ anyPost

\* C5: after a successful resolution the cursor starts at 2026-02-02, moves
\* one day per iteration and the run terminates normally with the cursor
\* past 2026-02-16, each of the 15 days processed once.
C5_CursorCoversRange ==
    (Terminated /\ Resolved) =>
        /\ pc = "returned"
        /\ daysDone = RangeDays
        /\ current_date = AddDays(end_date, 1)

\* C6: for each nap anchor and every start offset drawn from -15..15, a nap
\* SLEEP event is submitted whose start is the anchor shifted by the offset
\* on that day and whose duration is the base duration shifted by a value in
\* -10..20.
C6_NapForEveryOffset ==
    draw.anchor # 0 =>
        LET a == nap_times[draw.anchor]
            start == AddMinutes(Replace(current_date, a[1], a[2]), draw.off)
        IN  /\ draw.off \in -15..15
            /\ draw.jit \in -10..20
            /\ Cardinality(SleepPosts("nap")) = 1
            /\ \A p \in SleepPosts("nap") :
                 /\ p.start_time = IsoFormatZ(start)
                 /\ IsoMinutes(p.end_time) - IsoMinutes(p.start_time) = a[3] + draw.jit

\* C7: every submitted night-sleep event starts on the current day at hour
\* 20 and ends at hour 7 of the calendar day after its start.
C7_NightEndsNextDay ==
    \A p \in SleepPosts("night") :
        /\ <<p.start_time.iso[1], p.start_time.iso[2], p.start_time.iso[3]>>
             = <<current_date.year, current_date.month, current_date.day>>
        /\ p.start_time.iso[4] = 20
        /\ p.end_time.iso[4] = 7
        /\ p.end_time.iso[1] = p.start_time.iso[1]
        /\ IsoDay(p.end_time) = IsoDay(p.start_time) + 1

\* the night sleep of the last day of the range, ending on 2026-02-17
C7_Witness ==
    \E p \in SleepPosts("night") :
        /\ p.start_time.iso[3] = end_date.day
        /\ p.start_time.iso[5] = 30
        /\ p.end_time.iso[5] = 0

\* C8: the identifier is resolved once and does not change: from the profile
\* call on, baby_id is what that call returned, and every POST carries it.
C8_PostsCarryResolvedId ==
    /\ pc # "get_baby_id" =>
         baby_id = (IF profile.status = 200 /\ profile.id \notin {Absent, Null}
                    THEN profile.id ELSE None)
    /\ \A p \in Posts : profile.status = 200 /\ p.baby_id = profile.id

\* a diaper event of a later day carrying the second identifier
C8_Witness ==
    \E p \in Posts :
        /\ p.type \in {"POO", "PEE"}
        /\ p.baby_id = Str(MaxIds)
        /\ daysDone > 0
        /\ anyFailed

\* C9: a 200 profile response without a usable id (missing, null or "") ends
\* the run without any POST, and no POST carries a missing or empty baby_id.
C9_NoIdNoPost ==
    /\ (profile.status = 200 /\ profile.id \in {Absent, Null, Str(0)}) =>
         (~anyPost /\ lastPosts = <<>> /\ pc \in {"check_id", "returned"})
    /\ \A p \in Posts : p.baby_id \notin {None, Str(0)}

\* a run that ended after a 200 response whose id is the empty string
C9_Witness ==
    pc = "returned" /\ profile.status = 200 /\ profile.id = Str(0) /\ baby_id = Str(0)

\* C10: a request has an end_time exactly when its type is SLEEP, and every
\* SLEEP event ends strictly after it starts: a nap lasts at least 30
\* minutes, a night sleep ends on the next day.
C10_WellFormedWindow ==
    \A p \in Posts :
        /\ ("end_time" \in DOMAIN p) <=> (p.type = "SLEEP")
        /\ p.type \in {"SLEEP", "FORMULA", "POO", "PEE"}
        /\ p.type = "SLEEP" =>
             /\ IsoMinutes(p.end_time) > IsoMinutes(p.start_time)
             /\ p.value.sleep_type = "nap" =>
                  IsoMinutes(p.end_time) - IsoMinutes(p.start_time) >= 30
             /\ p.value.sleep_type = "night" =>
                  IsoDay(p.end_time) > IsoDay(p.start_time)

\* the shortest nap: the 17:00 nap of 40 minutes with the jitter -10
C10_Witness ==
    /\ draw.anchor = 3 /\ draw.jit = -10
    /\ \E p \in SleepPosts("nap") :
         IsoMinutes(p.end_time) - IsoMinutes(p.start_time) = 30

====
